---------------------------- MODULE Spec2Model ----------------------------
(***************************************************************************)
(* normalize_lights: a proxy light whose brightness lives in a virtual     *)
(* 0..255 domain and is mapped onto the usable band [LLV, HLD] of a target *)
(* light.                                                                  *)
(*                                                                         *)
(*   engine.py  - the pure virtual <-> actual mapping                      *)
(*   light.py   - NormalizeProxyLight: commands (proxy -> target) and the  *)
(*                mirror (target -> proxy)                                 *)
(*                                                                         *)
(* Two specifications are defined:                                         *)
(*   Spec        the proxy entity running on the host's event loop         *)
(*   EngineSpec  the mapping engine applied to inputs drawn from a sample  *)
(***************************************************************************)
EXTENDS Integers, Sequences, FiniteSets, TLC

VARIABLES
    llv,               \* self._llv  (None or an integer)
    hld,               \* self._hld  (None or an integer)
    isOn,              \* self._attr_is_on
    virtualBrightness, \* self._virtual_brightness
    unsubTarget,       \* self._unsub_target is not None
    lifecycle,         \* "constructed", "added" or "removed"
    frame,             \* the suspended command coroutine (its pc and locals)
    call,              \* the outbound service call in flight, if any
    result,            \* how the last command handler ended for its caller
    targetState,       \* hass.states.get(target): None or a State
    events,            \* state-change notifications not yet handled (FIFO)
    published,         \* what async_write_ha_state last published, if anything
    subscriptions,     \* listeners the host holds for this proxy on the target's feed
    eng,               \* EngineSpec only: one application of the engine
    entries,           \* ConfigSpec only: the integration's config entries
    flows              \* ConfigSpec only: the config flows in progress

vars == << llv, hld, isOn, virtualBrightness, unsubTarget, lifecycle, frame,
           call, result, targetState, events, published, subscriptions, eng,
           entries, flows >>

entityVars == << llv, hld, isOn, virtualBrightness, unsubTarget, lifecycle,
                 frame, call, result, targetState, events, published,
                 subscriptions >>

cfgVars == << entries, flows >>

-----------------------------------------------------------------------------
(* Optional values: Python's None is the empty tuple, a value x is <<x>>.  *)

None == << >>

Some(x) == << x >>

Val(o) == o[1]

Min2(a, b) == IF a <= b THEN a ELSE b

Max2(a, b) == IF a >= b THEN a ELSE b

-----------------------------------------------------------------------------
(* Bounds of the model.                                                    *)

\* Most state-change notifications that may be waiting for the event loop.
MaxQueue == 2

\* The bound pairs of EngineSpec are drawn from every LevelStride-th level
\* (plus the levels the specification's examples name).
LevelStride == 32

-----------------------------------------------------------------------------
(* Python arithmetic.                                                      *)

\* round(n / d) for d > 0: Python rounds an exact half to the even neighbour.
RoundHalfEven(n, d) ==
    LET q == n \div d
        r == n - q * d
    IN  IF 2 * r < d THEN q
        ELSE IF 2 * r > d THEN q + 1
        ELSE IF q % 2 = 0 THEN q ELSE q + 1

\* int(n / d) for d > 0: truncation toward zero.
TruncDiv(n, d) == IF n >= 0 THEN n \div d ELSE -((-n) \div d)

\* str.lower() on the state strings of the model.
Lower(s) == IF s = "ON" THEN "on" ELSE s

-----------------------------------------------------------------------------
(* engine.py                                                               *)

\* _clamp_0_255 on an integer input (round(float(x)) is then x itself).
clamp_0_255(x) == Max2(0, Min2(255, x))

normalize_bounds_FallbackOnlyWhenCrossed(l, h) ==
    LET lo == IF l = None THEN 0 ELSE clamp_0_255(Val(l))
        hi == IF h = None THEN 255 ELSE clamp_0_255(Val(h))
    IN  IF hi < lo THEN << 0, 255 >> ELSE << lo, hi >>

normalize_bounds(l, h) ==
    LET lo == IF l = None THEN 0 ELSE clamp_0_255(Val(l))
        hi == IF h = None THEN 255 ELSE clamp_0_255(Val(h))
    IN  IF hi <= lo THEN << 0, 255 >> ELSE << lo, hi >>

\* virtual_to_actual scaling v over 254 steps from 0, not (v - 1) over 253.
virtual_to_actual_ScaleFromZero(v0, l, h) ==
    LET v == clamp_0_255(v0)
        b == normalize_bounds(l, h)
        lo == b[1]
        hi == b[2]
    IN  IF v = 0 THEN 0
        ELSE IF v = 255 THEN 255
        ELSE clamp_0_255(lo + RoundHalfEven(v * (hi - lo), 254))

virtual_to_actual_Truncates(v0, l, h) ==
    LET v == clamp_0_255(v0)
        b == normalize_bounds(l, h)
    IN  IF v = 0 THEN 0
        ELSE IF v = 255 THEN 255
        ELSE b[1] + TruncDiv((v - 1) * (b[2] - b[1]), 253)

virtual_to_actual_BoundsSwapped(v0, l, h) ==
    LET v == clamp_0_255(v0)
        b == normalize_bounds(l, h)
        lo == b[2]
        hi == b[1]
    IN  IF v = 0 THEN 0
        ELSE IF v = 255 THEN 255
        ELSE clamp_0_255(lo + RoundHalfEven((v - 1) * (hi - lo), 253))

virtual_to_actual(v0, l, h) ==
    LET v == clamp_0_255(v0)
        b == normalize_bounds(l, h)
        lo == b[1]
        hi == b[2]
    IN  IF v = 0 THEN 0
        ELSE IF v = 255 THEN 255
        ELSE clamp_0_255(lo + RoundHalfEven((v - 1) * (hi - lo), 253))

\* actual_to_virtual without the a >= 255 case.
actual_to_virtual_NoTrueMax(a0, l, h) ==
    LET a == clamp_0_255(a0)
        b == normalize_bounds(l, h)
        lo == b[1]
        hi == b[2]
        span == hi - lo
        a_clamped == Max2(lo, Min2(hi, a))
    IN  IF a = 0 THEN 0
        ELSE IF span <= 0 THEN a
        ELSE clamp_0_255(1 + RoundHalfEven(253 * (a_clamped - lo), span))

\* actual_to_virtual without clamping a into the band before inverting.
actual_to_virtual_NoBandClamp(a0, l, h) ==
    LET a == clamp_0_255(a0)
        b == normalize_bounds(l, h)
        lo == b[1]
        hi == b[2]
        span == hi - lo
    IN  IF a = 0 THEN 0
        ELSE IF a >= 255 THEN 255
        ELSE IF span <= 0 THEN a
        ELSE clamp_0_255(1 + RoundHalfEven(253 * (a - lo), span))

actual_to_virtual(a0, l, h) ==
    LET a == clamp_0_255(a0)
        b == normalize_bounds(l, h)
        lo == b[1]
        hi == b[2]
        span == hi - lo
        a_clamped == Max2(lo, Min2(hi, a))
    IN  IF a = 0 THEN 0
        ELSE IF a >= 255 THEN 255
        ELSE IF span <= 0 THEN a
        ELSE clamp_0_255(1 + RoundHalfEven(253 * (a_clamped - lo), span))

-----------------------------------------------------------------------------
(* The inputs of the model.                                                *)

\* Construction parameters (llv, hld): none given (platform set-up without
\* bounds), a usable band, and a degenerate pair the config flow accepts.
BoundsConfigs ==
    { << None, None >>, << Some(20), Some(230) >>, << Some(128), Some(128) >> }

\* The states the host may hold for the target light.
OnDim(b) == [ state |-> "on", brightness |-> Some(b),
              supported_color_modes |-> Some({"brightness"}) ]

TargetStates ==
    { [ state |-> "off", brightness |-> None,
        supported_color_modes |-> Some({"brightness"}) ],
      OnDim(5),
      OnDim(128),
      [ state |-> "ON", brightness |-> None,
        supported_color_modes |-> Some({"onoff"}) ],
      [ state |-> "off", brightness |-> Some(100),
        supported_color_modes |-> None ],
      [ state |-> "on", brightness |-> Some(128),
        supported_color_modes |-> Some({"color_temp", "hs"}) ] }

\* **kwargs of turn_on / turn_off: each key is absent (None) or present.
Kw(b, s, p, t) == [ brightness |-> b, brightness_step |-> s,
                    brightness_step_pct |-> p, transition |-> t ]

NoKwargs == Kw(None, None, None, None)

TurnOnKwargs ==
    { NoKwargs,
      Kw(Some(100), Some(10), None, None),
      Kw(Some(100), Some(10), Some(50), None),
      Kw(None, None, Some(50), None),
      Kw(None, Some(127), None, None),
      Kw(Some(0), None, None, None),
      Kw(Some(1), None, None, Some(2)),
      Kw(Some(300), None, None, None) }

TurnOffKwargs == { NoKwargs, Kw(None, None, None, Some(2)) }

-----------------------------------------------------------------------------
(* light.py: helpers of NormalizeProxyLight                                *)

\* _clamp on an integer input.
clamp(n) == Max2(0, Min2(255, n))

\* The brightness property: the virtual brightness when on, else None.
brightness(on, vb) == IF on THEN Some(vb) ELSE None

\* async_write_ha_state: the host publishes the entity's state.
WriteHaState(on, vb) == Some([ is_on |-> on, brightness |-> brightness(on, vb) ])

\* ResolveVirtual with the precedence reversed: brightness_step_pct wins.
ResolveVirtual_PctWins(kw, cur) ==
    LET v1 == IF kw.brightness # None THEN clamp(Val(kw.brightness)) ELSE cur
    IN  IF kw.brightness_step_pct # None
            THEN clamp(v1 + TruncDiv(255 * Val(kw.brightness_step_pct), 100))
        ELSE IF kw.brightness_step # None
            THEN clamp(v1 + Val(kw.brightness_step))
        ELSE v1

\* async_turn_on, the virtual value: absolute first, then the relative step
\* (brightness_step wins over brightness_step_pct).
ResolveVirtual(kw, cur) ==
    LET v1 == IF kw.brightness # None THEN clamp(Val(kw.brightness)) ELSE cur
    IN  IF kw.brightness_step # None
            THEN clamp(v1 + Val(kw.brightness_step))
        ELSE IF kw.brightness_step_pct # None
            THEN clamp(v1 + TruncDiv(255 * Val(kw.brightness_step_pct), 100))
        ELSE v1

\* ActualForTarget without the minimum-on floor.
ActualForTarget_NoFloor(v, l, h) == virtual_to_actual(v, l, h)

\* async_turn_on, the actual value: the transform, then "ensure we turn the
\* light on".
ActualForTarget(v, l, h) ==
    LET a == virtual_to_actual(v, l, h)
    IN  IF a = 0 THEN 1 ELSE a

\* async_turn_on: does the target take a brightness field?
SupportsBrightness(ts) ==
    IF ts = None THEN TRUE
    ELSE LET scms == Val(ts).supported_color_modes
         IN  IF scms # None THEN "brightness" \in Val(scms) ELSE TRUE

\* async_turn_on: the payload of light.turn_on.
TurnOnServiceData(kw, a, ts) ==
    [ entity_id  |-> "target",
      brightness |-> IF SupportsBrightness(ts) THEN Some(a) ELSE None,
      transition |-> kw.transition ]

\* async_turn_off: the payload of light.turn_off.
TurnOffServiceData(kw) ==
    [ entity_id |-> "target", brightness |-> None, transition |-> kw.transition ]

\* apply_target_state comparing the state string without lower-casing it.
apply_target_state_CaseSensitive(st, l, h) ==
    LET is_on == (st.state = "on")
    IN  IF st.brightness = None
            THEN << is_on, IF is_on THEN 255 ELSE 0 >>
            ELSE << is_on, actual_to_virtual(Val(st.brightness), l, h) >>

\* _apply_target_state: the pair << is_on, virtual brightness >> it sets.
apply_target_state(st, l, h) ==
    LET is_on == (Lower(st.state) = "on")
    IN  IF st.brightness = None
            THEN << is_on, IF is_on THEN 255 ELSE 0 >>
            ELSE << is_on, actual_to_virtual(Val(st.brightness), l, h) >>

-----------------------------------------------------------------------------
(* The proxy entity on the host's event loop.                              *)

IdleFrame == [ pc |-> "idle", kwargs |-> NoKwargs, v |-> 0 ]

EngIdle == [ op |-> "none", llv |-> None, hld |-> None, x |-> 0, mid |-> 0,
             out |-> 0 ]

\* The config flows of the model, none of them started.
FlowIds == { 1, 2 }

NoFlow == [ step |-> "none", target_entity |-> None, user_input |-> None,
            errors |-> None ]

NoFlows == [ f \in FlowIds |-> NoFlow ]

\* __init__: off, brightness 0, not subscribed.
EntityInit ==
    /\ \E b \in BoundsConfigs : llv = b[1] /\ hld = b[2]
    /\ isOn = FALSE
    /\ virtualBrightness = 0
    /\ unsubTarget = FALSE
    /\ lifecycle = "constructed"
    /\ frame = IdleFrame
    /\ call = None
    /\ result = "none"
    /\ targetState \in { None } \cup { Some(s) : s \in TargetStates }
    /\ events = << >>
    /\ published = None
    /\ subscriptions = 0

Init == EntityInit /\ eng = EngIdle /\ entries = << >> /\ flows = NoFlows

\* AddedToHass that subscribes without priming.
AddedToHass_NoPriming ==
    /\ lifecycle = "constructed"
    /\ unsubTarget' = TRUE
    /\ subscriptions' = subscriptions + 1
    /\ lifecycle' = "added"
    /\ UNCHANGED << llv, hld, isOn, virtualBrightness, frame, call, result,
                    targetState, events, published, eng, cfgVars >>

\* async_added_to_hass: prime from the target's current state, then subscribe.
AddedToHass ==
    /\ lifecycle = "constructed"
    /\ IF targetState # None
          THEN LET m == apply_target_state(Val(targetState), llv, hld)
               IN  isOn' = m[1] /\ virtualBrightness' = m[2]
          ELSE UNCHANGED << isOn, virtualBrightness >>
    /\ unsubTarget' = TRUE
    /\ subscriptions' = subscriptions + 1
    /\ lifecycle' = "added"
    /\ UNCHANGED << llv, hld, frame, call, result, targetState, events,
                    published, eng, cfgVars >>

\* WillRemoveFromHass that forgets to call the unsubscribe token.
WillRemoveFromHass_KeepsSubscription ==
    /\ lifecycle = "added"
    /\ unsubTarget' = FALSE
    /\ lifecycle' = "removed"
    /\ UNCHANGED << llv, hld, isOn, virtualBrightness, frame, call, result,
                    targetState, events, published, subscriptions, eng, cfgVars >>

\* async_will_remove_from_hass: release the subscription.
WillRemoveFromHass ==
    /\ lifecycle = "added"
    /\ IF unsubTarget
          THEN /\ subscriptions' = subscriptions - 1
               /\ events' = << >>
               /\ unsubTarget' = FALSE
          ELSE UNCHANGED << unsubTarget, subscriptions, events >>
    /\ lifecycle' = "removed"
    /\ UNCHANGED << llv, hld, isOn, virtualBrightness, frame, call, result,
                    targetState, published, eng, cfgVars >>

\* The host: the target's state changes (or the target goes away, ns = None);
\* a subscribed proxy is sent the notification.
TargetStateChanged(ns) ==
    /\ ns # targetState
    /\ targetState' = ns
    /\ IF subscriptions > 0
          THEN /\ Len(events) < MaxQueue
               /\ events' = Append(events, ns)
          ELSE UNCHANGED events
    /\ UNCHANGED << llv, hld, isOn, virtualBrightness, unsubTarget, lifecycle,
                    frame, call, result, published, subscriptions, eng, cfgVars >>

\* HandleTargetEvent that publishes before it applies the new state.
HandleTargetEvent_PublishesFirst ==
    /\ events # << >>
    /\ LET new_state == Head(events)
       IN  IF new_state # None
              THEN LET m == apply_target_state(Val(new_state), llv, hld)
                   IN  /\ isOn' = m[1]
                       /\ virtualBrightness' = m[2]
                       /\ published' = WriteHaState(isOn, virtualBrightness)
              ELSE UNCHANGED << isOn, virtualBrightness, published >>
    /\ events' = Tail(events)
    /\ UNCHANGED << llv, hld, unsubTarget, lifecycle, frame, call, result,
                    targetState, subscriptions, eng, cfgVars >>

\* _handle_target_event: apply the new state, then publish.
HandleTargetEvent ==
    /\ events # << >>
    /\ LET new_state == Head(events)
       IN  IF new_state # None
              THEN LET m == apply_target_state(Val(new_state), llv, hld)
                   IN  /\ isOn' = m[1]
                       /\ virtualBrightness' = m[2]
                       /\ published' = WriteHaState(m[1], m[2])
              ELSE UNCHANGED << isOn, virtualBrightness, published >>
    /\ events' = Tail(events)
    /\ UNCHANGED << llv, hld, unsubTarget, lifecycle, frame, call, result,
                    targetState, subscriptions, eng, cfgVars >>

\* async_turn_on up to its await: resolve v, build the payload, issue the call.
TurnOn(kw) ==
    /\ lifecycle = "added"
    /\ frame.pc = "idle"
    /\ LET v == ResolveVirtual(kw, virtualBrightness)
           a == ActualForTarget(v, llv, hld)
       IN  /\ frame' = [ pc |-> "await_on", kwargs |-> kw, v |-> v ]
           /\ call' = Some([ service |-> "turn_on",
                             data |-> TurnOnServiceData(kw, a, targetState) ])
    /\ result' = "none"
    /\ UNCHANGED << llv, hld, isOn, virtualBrightness, unsubTarget, lifecycle,
                    targetState, events, published, subscriptions, eng, cfgVars >>

\* async_turn_off up to its await.
TurnOff(kw) ==
    /\ lifecycle = "added"
    /\ frame.pc = "idle"
    /\ frame' = [ pc |-> "await_off", kwargs |-> kw, v |-> 0 ]
    /\ call' = Some([ service |-> "turn_off", data |-> TurnOffServiceData(kw) ])
    /\ result' = "none"
    /\ UNCHANGED << llv, hld, isOn, virtualBrightness, unsubTarget, lifecycle,
                    targetState, events, published, subscriptions, eng, cfgVars >>

\* The awaited call completes: the handler resumes, applies the optimistic
\* update, publishes and returns.
ServiceCallReturns ==
    /\ frame.pc \in { "await_on", "await_off" }
    /\ IF frame.pc = "await_on"
          THEN /\ virtualBrightness' = frame.v
               /\ isOn' = TRUE
               /\ published' = WriteHaState(TRUE, frame.v)
          ELSE /\ isOn' = FALSE
               /\ virtualBrightness' = 0
               /\ published' = WriteHaState(FALSE, 0)
    /\ frame' = IdleFrame
    /\ call' = None
    /\ result' = "returned"
    /\ UNCHANGED << llv, hld, unsubTarget, lifecycle, targetState, events,
                    subscriptions, eng, cfgVars >>

\* The awaited call fails (or is timed out by the host): the exception leaves
\* the await and, there being no handler for it, the command.
ServiceCallRaises ==
    /\ frame.pc \in { "await_on", "await_off" }
    /\ frame' = IdleFrame
    /\ call' = None
    /\ result' = "raised"
    /\ UNCHANGED << llv, hld, isOn, virtualBrightness, unsubTarget, lifecycle,
                    targetState, events, published, subscriptions, eng, cfgVars >>

Next ==
    \/ AddedToHass
    \/ WillRemoveFromHass
    \/ \E s \in TargetStates : TargetStateChanged(Some(s))
    \/ TargetStateChanged(None)
    \/ HandleTargetEvent
    \/ \E kw \in TurnOnKwargs : TurnOn(kw)
    \/ \E kw \in TurnOffKwargs : TurnOff(kw)
    \/ ServiceCallReturns
    \/ ServiceCallRaises

Spec == Init /\ [][Next]_vars

TypeOK ==
    /\ isOn \in BOOLEAN
    /\ virtualBrightness \in 0..255
    /\ lifecycle \in { "constructed", "added", "removed" }
    /\ result \in { "none", "returned", "raised" }
    /\ Len(events) <= MaxQueue
    /\ subscriptions \in 0..1

-----------------------------------------------------------------------------
(* The mapping engine on its own: EngineSpec draws a bound pair and an     *)
(* input, and applies one transform (or the round trip) to them.           *)

\* The levels the bound pairs are drawn from.
Levels ==
    { n \in 0..255 : n % LevelStride = 0 }
        \cup { -5, 1, 17, 20, 230, 238, 254, 255, 300 }

OptLevels == { None } \cup { Some(n) : n \in Levels }

\* The brightness values the transforms are applied to: the whole domain, and
\* values outside it, which the engine clamps.
EngineInputs == (-2..257) \cup { 300 }

EngineInit ==
    /\ eng \in [ op : { "none" }, llv : OptLevels, hld : OptLevels,
                 x : EngineInputs, mid : { 0 }, out : { 0 } ]
    /\ llv = None
    /\ hld = None
    /\ isOn = FALSE
    /\ virtualBrightness = 0
    /\ unsubTarget = FALSE
    /\ lifecycle = "constructed"
    /\ frame = IdleFrame
    /\ call = None
    /\ result = "none"
    /\ targetState = None
    /\ events = << >>
    /\ published = None
    /\ subscriptions = 0
    /\ entries = << >>
    /\ flows = NoFlows

ApplyVirtualToActual ==
    /\ eng.op = "none"
    /\ eng' = [ eng EXCEPT !.op = "v2a",
                           !.out = virtual_to_actual(eng.x, eng.llv, eng.hld) ]
    /\ UNCHANGED << entityVars, cfgVars >>

ApplyActualToVirtual ==
    /\ eng.op = "none"
    /\ eng' = [ eng EXCEPT !.op = "a2v",
                           !.out = actual_to_virtual(eng.x, eng.llv, eng.hld) ]
    /\ UNCHANGED << entityVars, cfgVars >>

\* actual -> virtual -> actual
ApplyRoundTrip ==
    /\ eng.op = "none"
    /\ LET m == actual_to_virtual(eng.x, eng.llv, eng.hld)
       IN  eng' = [ eng EXCEPT !.op = "rt", !.mid = m,
                               !.out = virtual_to_actual(m, eng.llv, eng.hld) ]
    /\ UNCHANGED << entityVars, cfgVars >>

EngineNext ==
    \/ ApplyVirtualToActual
    \/ ApplyActualToVirtual
    \/ ApplyRoundTrip

EngineSpec == EngineInit /\ [][EngineNext]_vars

\* The bound pair of an application, a missing bound read as its default.
EngLo == IF eng.llv = None THEN 0 ELSE Val(eng.llv)

EngHi == IF eng.hld = None THEN 255 ELSE Val(eng.hld)

\* Valid bounds: 0 <= lo < hi <= 255.
EngValidBounds == 0 <= EngLo /\ EngLo < EngHi /\ EngHi <= 255

-----------------------------------------------------------------------------
(* Properties of the commands.                                             *)

\* A step that issues the outbound call of a command.
IssuesCall == call = None /\ call' # None

\* A step in which a command handler ends (returns or raises).
EndsCommand == frame.pc # "idle" /\ frame'.pc = "idle"

\* C1 (as claimed): when the outbound call of turn_on / turn_off is issued,
\* the optimistic update is already applied, so that a reader sees the
\* command's isOn / virtualBrightness while the call is pending.
C1_OptimisticBeforeCall ==
    [][ IssuesCall =>
          IF frame'.pc = "await_on"
             THEN isOn' = TRUE /\ virtualBrightness' = frame'.v
             ELSE isOn' = FALSE /\ virtualBrightness' = 0 ]_vars

\* C2 (as claimed): a command ends with its optimistic state applied, also
\* when the outbound call failed: turn_on leaves isOn = TRUE and
\* virtualBrightness = v, turn_off leaves isOn = FALSE and virtualBrightness = 0.
C2_OptimisticWhateverTheCall ==
    [][ EndsCommand =>
          IF frame.pc = "await_on"
             THEN isOn' = TRUE /\ virtualBrightness' = frame.v
             ELSE isOn' = FALSE /\ virtualBrightness' = 0 ]_vars

\* C3 (as claimed): no command handler ends by raising to its caller.
C3_NeverRaises == result # "raised"

\* C4 (as claimed): off means virtual brightness 0, and the virtual brightness
\* is always within 0..255.
C4_OffIsZero ==
    /\ virtualBrightness \in 0..255
    /\ (~isOn => virtualBrightness = 0)

\* A turn_on step whose only brightness argument is brightness_step_pct.
OnlyStepPct(kw) ==
    /\ kw.brightness = None
    /\ kw.brightness_step = None
    /\ kw.brightness_step_pct # None

\* C5 (as claimed): turn_on with only brightness_step_pct = p resolves
\* v = clamp(base + round(255 * p / 100)); with bounds {20, 230} and the proxy
\* off at 0, p = 50 gives v = 128, sent as virtualToActual(128, {20, 230}).
C5_StepPctRounds ==
    [][ (frame.pc = "idle" /\ frame'.pc = "await_on" /\ OnlyStepPct(frame'.kwargs)) =>
          LET p == Val(frame'.kwargs.brightness_step_pct)
          IN  /\ frame'.v =
                   Max2(0, Min2(255, virtualBrightness + RoundHalfEven(255 * p, 100)))
              /\ (llv = Some(20) /\ hld = Some(230) /\ ~isOn
                     /\ virtualBrightness = 0 /\ p = 50
                     /\ Val(call').data.brightness # None)
                 => /\ frame'.v = 128
                    /\ Val(call').data.brightness
                         = Some(virtual_to_actual(128, Some(20), Some(230))) ]_vars

\* C6: in turn_on with brightness_step present, v = clamp(b + brightness_step),
\* b being clamp(brightness) when an absolute brightness is given and the
\* current virtual brightness otherwise; brightness_step_pct plays no part.
C6_StepOnTopOfBase ==
    [][ (frame.pc = "idle" /\ frame'.pc = "await_on"
            /\ frame'.kwargs.brightness_step # None) =>
          LET kw == frame'.kwargs
              b  == IF kw.brightness # None
                       THEN Max2(0, Min2(255, Val(kw.brightness)))
                       ELSE virtualBrightness
          IN  frame'.v = Max2(0, Min2(255, b + Val(kw.brightness_step))) ]_vars

\* C6, its case reached: turn_on(brightness=100, brightness_step=10,
\* brightness_step_pct=50) pending with v = 110.
C6_Witness ==
    /\ frame.pc = "await_on"
    /\ frame.kwargs = Kw(Some(100), Some(10), Some(50), None)
    /\ frame.v = 110

\* The brightness field of the pending light.turn_on call, if it has one.
SentBrightness == Val(call).data.brightness

SendsBrightness ==
    /\ call # None
    /\ Val(call).service = "turn_on"
    /\ Val(call).data.brightness # None

\* C7 (as claimed): the brightness sent by turn_on is within 1..255, is 1
\* exactly when v = 0, and is virtualToActual(v, bounds) otherwise.
C7_FloorOnlyAtZero ==
    SendsBrightness =>
        /\ Val(SentBrightness) \in 1..255
        /\ (Val(SentBrightness) = 1 <=> frame.v = 0)
        /\ (frame.v # 0 => Val(SentBrightness) = virtual_to_actual(frame.v, llv, hld))

\* C7 (amended): the brightness sent by turn_on is within 1..255; it is 1
\* whenever virtualToActual(v, bounds) is 0, which is so for v = 0, and is
\* virtualToActual(v, bounds) otherwise.
C7_MinimumOnFloor ==
    SendsBrightness =>
        LET a == virtual_to_actual(frame.v, llv, hld)
        IN  /\ Val(SentBrightness) \in 1..255
            /\ (a = 0 => Val(SentBrightness) = 1)
            /\ (a # 0 => Val(SentBrightness) = a)
            /\ (frame.v = 0 => Val(SentBrightness) = 1)

\* C7, its case reached: v = 1 under the full span maps to actual 0 and is
\* sent as 1.
C7_Witness ==
    /\ SendsBrightness
    /\ frame.v = 1
    /\ virtual_to_actual(1, llv, hld) = 0
    /\ SentBrightness = Some(1)

-----------------------------------------------------------------------------
(* Properties of the mapping engine (EngineSpec).                          *)

\* C8: for v in 1..254 and valid bounds, virtualToActual(v, {lo, hi}) lies in
\* lo..hi, with v = 1 mapped to lo and v = 254 mapped to hi.
C8_InteriorWithinBounds ==
    (eng.op = "v2a" /\ eng.x \in 1..254 /\ EngValidBounds) =>
        /\ eng.out \in EngLo..EngHi
        /\ (eng.x = 1 => eng.out = EngLo)
        /\ (eng.x = 254 => eng.out = EngHi)

\* C8, its case reached: virtualToActual(254, {17, 238}) = 238.
C8_Witness ==
    /\ eng.op = "v2a"
    /\ eng.llv = Some(17)
    /\ eng.hld = Some(238)
    /\ eng.x = 254
    /\ eng.out = 238

\* C9: whatever the bounds (absent and degenerate ones included),
\* virtualToActual maps 0 to 0 and 255 to 255, and actualToVirtual maps 0 to 0
\* and every a >= 255 to 255.
C9_ExtremesUnconditional ==
    /\ (eng.op = "v2a" /\ eng.x = 0) => eng.out = 0
    /\ (eng.op = "v2a" /\ eng.x = 255) => eng.out = 255
    /\ (eng.op = "a2v" /\ eng.x = 0) => eng.out = 0
    /\ (eng.op = "a2v" /\ eng.x >= 255) => eng.out = 255

\* C9, its case reached: actualToVirtual(255) = 255 under a band that ends
\* below 255.
C9_Witness ==
    /\ eng.op = "a2v"
    /\ eng.llv = Some(20)
    /\ eng.hld = Some(230)
    /\ eng.x = 255
    /\ eng.out = 255

\* C10: for valid bounds and a in 0..255, the round trip actual -> virtual ->
\* actual returns a value within 1 of a when a is in lo..hi, and the nearest
\* bound when a is outside lo..hi and is neither 0 nor 255.
C10_RoundTrip ==
    (eng.op = "rt" /\ eng.x \in 0..255 /\ EngValidBounds) =>
        /\ eng.x \in EngLo..EngHi =>
              (eng.out - eng.x) \in { -1, 0, 1 }
        /\ (eng.x \notin EngLo..EngHi /\ eng.x \notin { 0, 255 }) =>
              eng.out = IF eng.x < EngLo THEN EngLo ELSE EngHi

\* C10, its case reached: a = 5 below the band {20, 230} comes back as 20.
C10_Witness ==
    /\ eng.op = "rt"
    /\ eng.llv = Some(20)
    /\ eng.hld = Some(230)
    /\ eng.x = 5
    /\ eng.mid = 1
    /\ eng.out = 20

-----------------------------------------------------------------------------
(* Properties of the mirror and of the entity's life cycle.                *)

\* A step in which the mirror handler applies a notification that carries a
\* new state.
MirrorApplied ==
    /\ events # << >>
    /\ Head(events) # None
    /\ events' = Tail(events)
    /\ lifecycle' = lifecycle

\* The step of async_added_to_hass.
Added == lifecycle = "constructed" /\ lifecycle' = "added"

\* The mirror image of a target state s: << isOn, virtualBrightness >>.
MirrorImage(s) ==
    LET on == s.state \in { "on", "ON" }
    IN  << on,
           IF s.brightness = None
              THEN IF on THEN 255 ELSE 0
              ELSE actual_to_virtual(Val(s.brightness), llv, hld) >>

\* C11: after a mirror notification, and after priming, with target state s,
\* isOn is (s.state is "on", whatever the case) and virtualBrightness is 255
\* if on else 0 when s has no brightness, actualToVirtual(s.brightness,
\* bounds) otherwise; brightness 5 under bounds {20, 230} is mirrored as 1.
C11_MirrorImage ==
    [][ /\ MirrorApplied =>
             /\ << isOn', virtualBrightness' >> = MirrorImage(Val(Head(events)))
             /\ (llv = Some(20) /\ hld = Some(230)
                    /\ Val(Head(events)).brightness = Some(5))
                => virtualBrightness' = 1
        /\ (Added /\ targetState # None) =>
             << isOn', virtualBrightness' >> = MirrorImage(Val(targetState))
      ]_vars

\* C11, its case reached: with bounds {20, 230} and no command ever issued,
\* the notification "on, brightness 5" has been mirrored as on at 1.
C11_Witness ==
    /\ llv = Some(20)
    /\ hld = Some(230)
    /\ targetState = Some(OnDim(5))
    /\ events = << >>
    /\ frame.pc = "idle"
    /\ result = "none"
    /\ isOn
    /\ virtualBrightness = 1
    /\ published = WriteHaState(TRUE, 1)

\* C12: the entity is added once; until then it is in the default Off state
\* and no notification waits for it or is handled; being added primes it from
\* the target's current state when there is one and leaves it Off when there
\* is none, with still no notification handled.
C12_PrimedBeforeLive ==
    [][ /\ lifecycle = "constructed" =>
             /\ events = << >>
             /\ ~isOn /\ virtualBrightness = 0 /\ published = None
             /\ lifecycle' = "added" =>
                  /\ events' = << >>
                  /\ published' = None
                  /\ << isOn', virtualBrightness' >> =
                        IF targetState # None
                           THEN MirrorImage(Val(targetState))
                           ELSE << FALSE, 0 >>
        /\ lifecycle # "constructed" => lifecycle' # "constructed"
      ]_vars

\* C12, its case reached: added and primed from "on, brightness 128", nothing
\* published and no notification received yet.
C12_Witness ==
    /\ lifecycle = "added"
    /\ targetState = Some(OnDim(128))
    /\ events = << >>
    /\ published = None
    /\ frame.pc = "idle"
    /\ isOn
    /\ virtualBrightness = actual_to_virtual(128, llv, hld)

-----------------------------------------------------------------------------
(* Properties of the outbound payload and of the interleaving of commands  *)
(* and mirror notifications.                                               *)

\* The colour modes of a light that can be dimmed (every mode but "onoff"
\* and "unknown").
BrightnessModes ==
    { "brightness", "color_temp", "hs", "xy", "rgb", "rgbw", "rgbww", "white" }

\* The target is known not to support a brightness channel: it has a state
\* that lists its colour modes, and none of them can be dimmed.
KnownNoBrightness(ts) ==
    /\ ts # None
    /\ Val(ts).supported_color_modes # None
    /\ Val(Val(ts).supported_color_modes) \cap BrightnessModes = { }

\* C16 (as claimed): light.turn_on omits the brightness field exactly when
\* the target is known not to support brightness and carries a otherwise; the
\* transition of turn_on / turn_off is passed through as given, absent when
\* not given.
C16_PayloadFields ==
    [][ IssuesCall =>
          LET data == Val(call').data
          IN  /\ data.transition = frame'.kwargs.transition
              /\ frame'.pc = "await_on" =>
                    data.brightness =
                        IF KnownNoBrightness(targetState)
                           THEN None
                           ELSE Some(ActualForTarget(frame'.v, llv, hld))
              /\ frame'.pc = "await_off" => data.brightness = None ]_vars

\* C17 (as claimed): no mirror notification is applied while a command is
\* between its read of the state and its optimistic write.
C17_CommandAtomic == [][ ~(frame.pc # "idle" /\ MirrorApplied) ]_vars

\* C18: a handled notification is applied in full and then published: the
\* proxy's state and the published state are both the mirror image of that
\* notification; notifications leave the feed from its head only and join it
\* at its tail only, and handling the last one waiting leaves the proxy with
\* the mirror image of the target's latest state.
C18_MirrorInOrder ==
    [][ /\ MirrorApplied =>
             LET m == MirrorImage(Val(Head(events)))
             IN  /\ << isOn', virtualBrightness' >> = m
                 /\ published' = Some([ is_on |-> m[1],
                                        brightness |-> IF m[1] THEN Some(m[2])
                                                               ELSE None ])
                 /\ Len(events) = 1 =>
                       << isOn', virtualBrightness' >> = MirrorImage(Val(targetState))
        /\ (events' # events /\ lifecycle' = lifecycle) =>
             \/ events # << >> /\ events' = Tail(events)
             \/ events' = Append(events, targetState')
      ]_vars

\* C18, its case reached: of two notifications, "on, brightness 5" has been
\* applied and published while "on, brightness 128" still waits.
C18_Witness ==
    /\ events = << Some(OnDim(128)) >>
    /\ isOn
    /\ virtualBrightness = actual_to_virtual(5, llv, hld)
    /\ published = WriteHaState(TRUE, actual_to_virtual(5, llv, hld))
    /\ frame.pc = "idle"
    /\ result = "none"

-----------------------------------------------------------------------------
(* Degenerate bounds and the repeated round trip (EngineSpec).             *)

\* The bounds of the engine call are degenerate: after clamping each into
\* 0..255 (None is 0 for llv, 255 for hld), hld <= llv.
EngDegenerate == clamp_0_255(EngHi) <= clamp_0_255(EngLo)

\* C19: with degenerate bounds, llv = hld included, each mapping of a value
\* in 0..255 gives what it gives with the bounds 0 and 255, and is computed
\* without dividing by a zero span.
C19_DegenerateIsFullRange ==
    (EngDegenerate /\ eng.x \in 0..255) =>
        /\ eng.op = "v2a" =>
              eng.out = virtual_to_actual(eng.x, Some(0), Some(255))
        /\ eng.op = "a2v" =>
              eng.out = actual_to_virtual(eng.x, Some(0), Some(255))

C19_Witness ==
    /\ eng.op = "v2a"
    /\ eng.llv = Some(230)
    /\ eng.hld = Some(230)
    /\ eng.x = 64
    /\ eng.out = 63

\* C20: the round trip f(a) = virtual_to_actual(actual_to_virtual(a)) is
\* idempotent for every a in 0..255 and every pair of bounds: f(f(a)) = f(a),
\* and mirroring f(a) again gives the same virtual brightness as mirroring a.
C20_RoundTripIdempotent ==
    (eng.op = "rt" /\ eng.x \in 0..255) =>
        LET again == actual_to_virtual(eng.out, eng.llv, eng.hld)
        IN  /\ virtual_to_actual(again, eng.llv, eng.hld) = eng.out
            /\ again = eng.mid

\* A round trip that moves the value (64 comes back as 63) and is then stable.
C20_Witness ==
    /\ eng.op = "rt"
    /\ eng.llv = Some(0)
    /\ eng.hld = Some(255)
    /\ eng.x = 64
    /\ eng.mid = 64
    /\ eng.out = 63

\* C21: both mappings are monotonically non-decreasing over 0..255 for every
\* pair of bounds, the extremes 0 and 255 included: the result for an input
\* x is never larger than the result for x + 1. As every x in 0..254 is
\* applied under every pair of bounds, this gives f(x) <= f(y) for all
\* x <= y in 0..255.
C21_Monotone ==
    (eng.x \in 0..254) =>
        /\ eng.op = "v2a" =>
              eng.out <= virtual_to_actual(eng.x + 1, eng.llv, eng.hld)
        /\ eng.op = "a2v" =>
              eng.out <= actual_to_virtual(eng.x + 1, eng.llv, eng.hld)

\* An actual value above the band maps to 254, just below the true maximum.
C21_Witness ==
    /\ eng.op = "a2v"
    /\ eng.llv = Some(20)
    /\ eng.hld = Some(230)
    /\ eng.x = 240
    /\ eng.out = 254

-----------------------------------------------------------------------------
(* config_flow.py: the configuration flow, ConfigSpec.                     *)

\* The light entities a user may pick as target.
Targets == { "light.a", "light.b", "light.a_proxy" }

\* What a user may type into the llv / hld fields: a number with or without
\* a percent sign, or text that is no number (num = None).
Level(isPct, n) == [ pct |-> isPct, num |-> n ]

LevelInputs ==
    { Level(TRUE, Some(17)),     \* "17%"
      Level(TRUE, Some(94)),     \* "94%"
      Level(TRUE, Some(150)),    \* "150%"
      Level(FALSE, Some(300)),   \* "300"
      Level(FALSE, None) }       \* "abc"

\* _parse_level.clamp255 on an integer.
clamp255(n) == Max2(0, Min2(255, n))

\* _parse_level.clamp255 on 255 * (n / 100) for 0 <= n <= 100.
clamp255_of_percent(n) == Max2(0, Min2(255, RoundHalfEven(255 * n, 100)))

\* _parse_level on a string: 0..255, or None.
parse_level(value) ==
    IF value.num = None THEN None
    ELSE LET n == Val(value.num)
         IN  IF value.pct
                THEN IF 0 <= n /\ n <= 100 THEN Some(clamp255_of_percent(n))
                                            ELSE None
                ELSE IF 0 <= n /\ n <= 100 THEN Some(clamp255_of_percent(n))
                                            ELSE Some(clamp255(n))

\* _derive_default_object_id
derive_default_object_id(target) ==
    CASE target = "light.a" -> "a_proxy"
      [] target = "light.b" -> "b_proxy"
      [] OTHER -> "a_proxy_proxy"

\* The entity id a proxy is registered under (async_setup_entry of light.py).
proxy_entity_id(object_id) ==
    CASE object_id = "a_proxy" -> "light.a_proxy"
      [] object_id = "b_proxy" -> "light.b_proxy"
      [] OTHER -> "light.a_proxy_proxy"

\* _target_already_proxied
target_already_proxied(target) ==
    \E i \in DOMAIN entries : entries[i].target = target

\* _is_proxy_light: the id ends in "_proxy", or the registry has the entity
\* under this integration.
is_proxy_light(entity_id) ==
    \/ entity_id \in { "light.a_proxy", "light.b_proxy", "light.a_proxy_proxy" }
    \/ \E i \in DOMAIN entries :
           proxy_entity_id(entries[i].proxy_object_id) = entity_id

ConfigInit ==
    /\ entries = << >>
    /\ flows = NoFlows
    /\ eng = EngIdle
    /\ llv = None
    /\ hld = None
    /\ isOn = FALSE
    /\ virtualBrightness = 0
    /\ unsubTarget = FALSE
    /\ lifecycle = "constructed"
    /\ frame = IdleFrame
    /\ call = None
    /\ result = "none"
    /\ targetState = None
    /\ events = << >>
    /\ published = None
    /\ subscriptions = 0

\* async_step_user without input: the target selection form is shown.
StepUserShow(f) ==
    /\ flows[f].step = "none"
    /\ flows' = [ flows EXCEPT ![f].step = "user" ]
    /\ UNCHANGED << entries, entityVars, eng >>

\* async_step_user with input: validate the target; when it passes, keep it
\* and go on to async_step_configure, which shows its form.
StepUserSubmit(f, target) ==
    /\ flows[f].step = "user"
    /\ flows' =
         IF is_proxy_light(target)
            THEN [ flows EXCEPT ![f].errors = Some("target_is_proxy") ]
         ELSE IF target_already_proxied(target)
            THEN [ flows EXCEPT ![f].errors = Some("target_in_use") ]
         ELSE [ flows EXCEPT ![f].step = "configure",
                             ![f].target_entity = Some(target),
                             ![f].errors = None ]
    /\ UNCHANGED << entries, entityVars, eng >>

\* async_step_configure with input: parse llv and hld; an error shows the
\* form again, otherwise the entry is created.
StepConfigureSubmit(f, llv_in, hld_in) ==
    /\ flows[f].step = "configure"
    /\ LET l == parse_level(llv_in)
           h == parse_level(hld_in)
           ui == Some([ llv |-> llv_in, hld |-> hld_in ])
       IN  IF l = None \/ h = None
              THEN /\ flows' = [ flows EXCEPT ![f].errors = Some("bad_level"),
                                              ![f].user_input = ui ]
                   /\ UNCHANGED entries
           ELSE IF Val(l) > Val(h)
              THEN /\ flows' = [ flows EXCEPT ![f].errors = Some("llv_gt_hld"),
                                              ![f].user_input = ui ]
                   /\ UNCHANGED entries
           ELSE /\ entries' = Append(entries,
                       [ target |-> Val(flows[f].target_entity),
                         proxy_object_id |->
                             derive_default_object_id(Val(flows[f].target_entity)),
                         llv |-> Val(l),
                         hld |-> Val(h),
                         profile |-> "linear" ])
                /\ flows' = [ flows EXCEPT ![f].step = "done",
                                           ![f].errors = None,
                                           ![f].user_input = ui ]
    /\ UNCHANGED << entityVars, eng >>

ConfigNext ==
    \E f \in FlowIds :
        \/ StepUserShow(f)
        \/ \E t \in Targets : StepUserSubmit(f, t)
        \/ \E l \in LevelInputs, h \in LevelInputs : StepConfigureSubmit(f, l, h)

ConfigSpec == ConfigInit /\ [][ConfigNext]_vars

-----------------------------------------------------------------------------
(* Properties of the configuration flow (ConfigSpec).                      *)

\* C14 (as claimed): no two config entries target the same device.
C14_OneEntryPerTarget ==
    \A i, j \in DOMAIN entries :
        i # j => entries[i].target # entries[j].target

\* A typed level is a number within range: 0..100 with a percent sign,
\* 0..255 without.
InRange(value) ==
    /\ value.num # None
    /\ 0 <= Val(value.num)
    /\ Val(value.num) <= IF value.pct THEN 100 ELSE 255

\* A step of flow f that creates its entry.
CreatesEntry(f) ==
    /\ flows[f].step = "configure"
    /\ flows'[f].step = "done"
    /\ Len(entries') = Len(entries) + 1

\* C15 (as claimed): an entry is created only from llv / hld inputs that are
\* numeric and in range with llv <= hld, and it holds integers
\* 0 <= llv <= hld <= 255; any other input leaves the flow in the configure
\* step with a validation error and creates nothing.
C15_InvalidBoundsRejected ==
    [][ \A f \in FlowIds :
          /\ CreatesEntry(f) =>
               LET ui == Val(flows'[f].user_input)
                   e  == entries'[Len(entries')]
               IN  /\ InRange(ui.llv) /\ InRange(ui.hld)
                   /\ e.llv \in 0..255 /\ e.hld \in 0..255 /\ e.llv <= e.hld
          /\ (flows[f].step = "configure" /\ flows'[f] # flows[f]
                  /\ ~CreatesEntry(f)) =>
               /\ flows'[f].step = "configure"
               /\ flows'[f].errors \in { Some("bad_level"), Some("llv_gt_hld") }
               /\ entries' = entries
      ]_vars

=============================================================================
